---- MODULE Spec2Model ----
(***************************************************************************)
(* Model of tensor_format.ts: tensorToString and the functions it uses     *)
(* (computeMaxSizePerColumn, valToString, subTensorToString,               *)
(* createComplexTuples).                                                   *)
(*                                                                         *)
(* Text is a sequence of one-character strings.  A number is a record      *)
(* [tag |-> "num", m, e] standing for the decimal m / 10^e; a complex      *)
(* tuple is [tag |-> "tuple", re, im].  JavaScript's undefined, where an   *)
(* array is read past its end, is the value Undefined.                     *)
(***************************************************************************)
EXTENDS Integers, Sequences, FiniteSets, TLC

\* ---------------------------------------------------------------- bounds
\* Largest rank of the shapes tried.
MaxRank == 3
\* Dimension sizes tried are 0..MaxSmallDim and the two sizes around the
\* truncation limit, FORMAT_LIMIT_NUM_VALS and FORMAT_LIMIT_NUM_VALS + 1.
MaxSmallDim == 2
\* Largest product of the non-zero dimension sizes of a shape tried.
MaxSize == 44
\* Pad widths tried for valToString are 0..MaxPad.
MaxPad == 3

\* ------------------------------------------------------- program constants
FORMAT_LIMIT_NUM_VALS == 20
FORMAT_NUM_FIRST_LAST_VALS == 3
FORMAT_NUM_SIG_DIGITS == 7

\* ------------------------------------------------------------ JS built-ins
Undefined == -1

Min(a, b) == IF a < b THEN a ELSE b
Max(a, b) == IF a > b THEN a ELSE b

RECURSIVE Pow10(_)
Pow10(k) == IF k = 0 THEN 1 ELSE 10 * Pow10(k - 1)

Digit(d) == <<"0", "1", "2", "3", "4", "5", "6", "7", "8", "9">>[d + 1]

\* String(n) for a non-negative integer n.
RECURSIVE NatToStr(_)
NatToStr(n) == IF n < 10 THEN <<Digit(n)>> ELSE NatToStr(n \div 10) \o <<Digit(n % 10)>>

RECURSIVE Repeat(_, _)
Repeat(ch, k) == IF k <= 0 THEN <<>> ELSE <<ch>> \o Repeat(ch, k - 1)

\* Array.prototype.join
RECURSIVE Join(_, _)
Join(strs, sep) ==
  IF strs = <<>> THEN <<>>
  ELSE IF Len(strs) = 1 THEN strs[1]
  ELSE LET h == Len(strs) \div 2
       IN Join(SubSeq(strs, 1, h), sep) \o sep \o Join(SubSeq(strs, h + 1, Len(strs)), sep)

\* lines.push(...more), repeated
Flatten(seqs) == Join(seqs, <<>>)

\* TypedArray.prototype.subarray(begin, end), indices from 0, clamped.
Subarray(arr, begin, end) ==
  LET len == Len(arr)
      b == IF begin < 0 THEN Max(len + begin, 0) ELSE Min(begin, len)
      e == IF end < 0 THEN Max(len + end, 0) ELSE Min(end, len)
  IN SubSeq(arr, b + 1, e)

\* arr[i] with i from 0; undefined past the end.
At(arr, i) == IF i >= 0 /\ i < Len(arr) THEN arr[i + 1] ELSE Undefined

Num(m, e) == [tag |-> "num", m |-> m, e |-> e]
Tuple(re, im) == [tag |-> "tuple", re |-> re, im |-> im]
Abs(x) == IF x < 0 THEN -x ELSE x

\* m / 10^e without the trailing zeros of the fraction.
RECURSIVE StripFraction(_, _)
StripFraction(m, e) ==
  IF e > 0 /\ m % 10 = 0 THEN StripFraction(m \div 10, e - 1) ELSE <<m, e>>

\* Number.prototype.toString() of the decimal (neg ? -1 : 1) * m / 10^e, m >= 0:
\* the shortest decimal, in exponent form below 1e-6.
NumberToString(neg, m, e) ==
  IF m = 0 THEN <<"0">>
  ELSE LET s == StripFraction(m, e)
           d == NatToStr(s[1])
           k == Len(d)
           n == k - s[2]
           body ==
             IF s[2] = 0 THEN d
             ELSE IF n > 0 THEN SubSeq(d, 1, n) \o <<".">> \o SubSeq(d, n + 1, k)
             ELSE IF n > -6 THEN <<"0", ".">> \o Repeat("0", -n) \o d
             ELSE <<d[1]>> \o (IF k > 1 THEN <<".">> \o Tail(d) ELSE <<>>)
                  \o <<"e", "-">> \o NatToStr(1 - n)
       IN (IF neg THEN <<"-">> ELSE <<>>) \o body

\* parseFloat(x.toFixed(digits)).toString(): x is rounded to `digits` places
\* after the decimal point, then printed as the shortest decimal.
ToFixedParsed(x, digits) ==
  LET a == Abs(x.m)
      units == IF x.e > digits
               THEN (a + (Pow10(x.e - digits) \div 2)) \div Pow10(x.e - digits)
               ELSE a * Pow10(digits - x.e)
  IN NumberToString(x.m < 0, units, digits)

\* ------------------------------------------------------------------ util.ts
\* Product of the dimension sizes.
RECURSIVE sizeFromShape(_)
sizeFromShape(shape) ==
  IF shape = <<>> THEN 1 ELSE shape[1] * sizeFromShape(Tail(shape))

\* Row-major strides of the dimensions before the innermost one: the entry
\* for dimension i is the product of the sizes to its right.  The innermost
\* stride (1) is not stored: tensor_format.ts reads the last entry as the
\* number of columns of a row and the first as the span of a sub-element.
computeStrides(shape) ==
  [i \in 1..(Len(shape) - 1) |-> sizeFromShape(SubSeq(shape, i + 1, Len(shape)))]

\* Appends spaces up to `size`; never truncates; an undefined size pads nothing.
rightPad(a, size) ==
  IF size = Undefined \/ size <= Len(a) THEN a ELSE a \o Repeat(" ", size - Len(a))

\* ------------------------------------------------------- tensor_format.ts
storagePerElement(dtype) == IF dtype = "complex64" THEN 2 ELSE 1

createComplexTuples(vals) ==
  [k \in 1..((Len(vals) + 1) \div 2) |-> Tuple(At(vals, 2 * (k - 1)), At(vals, 2 * (k - 1) + 1))]

valToString(val, pad) ==
  LET valStr ==
        IF val.tag = "tuple"
        THEN ToFixedParsed(val.re, FORMAT_NUM_SIG_DIGITS) \o <<" ", "+", " ">>
             \o ToFixedParsed(val.im, FORMAT_NUM_SIG_DIGITS) \o <<"j">>
        ELSE ToFixedParsed(val, FORMAT_NUM_SIG_DIGITS)
  IN rightPad(valStr, pad)

computeMaxSizePerColumn(vals, shape, dtype, strides) ==
  LET n == sizeFromShape(shape)
      numCols == At(strides, Len(strides) - 1)
      \* new Array(undefined) has the one entry undefined
      len == IF numCols = Undefined THEN 1 ELSE numCols
      rank == Len(shape)
      valuesOrTuples == IF dtype = "complex64" THEN createComplexTuples(vals) ELSE vals
      \* row < n / numCols: no row when numCols is 0 (0 / 0 is NaN)
      rows == IF numCols = Undefined \/ numCols = 0 THEN 0 ELSE n \div numCols
  IN [j \in 1..len |->
        IF rank > 1 /\ rows > 0
        THEN LET w(row) == Len(valToString(valuesOrTuples[(row - 1) * numCols + j], 0))
             IN CHOOSE m \in {w(row) : row \in 1..rows} :
                   \A row \in 1..rows : w(row) <= m
        ELSE 0]

\* The text of JavaScript's undefined in a string concatenation.
SUndefined == <<"u", "n", "d", "e", "f", "i", "n", "e", "d">>
SEllipsis == <<".", ".", ".">>
SCommaSpace == <<",", " ">>

\* rank 0: the scalar's line
ScalarLine(vals, dtype) ==
  IF dtype = "complex64"
  THEN valToString(createComplexTuples(vals)[1], 0)
  ELSE NumberToString(vals[1].m < 0, Abs(vals[1].m), vals[1].e)

\* rank 1, size > FORMAT_LIMIT_NUM_VALS: the values shown before the ellipsis
firstVals(vals, dtype) ==
  LET firstValsSize == FORMAT_NUM_FIRST_LAST_VALS * storagePerElement(dtype)
      slice == Subarray(vals, 0, firstValsSize)
  IN IF dtype = "complex64" THEN createComplexTuples(slice) ELSE slice

\* rank 1, size > FORMAT_LIMIT_NUM_VALS: the values shown after the ellipsis
lastVals(vals, size, dtype) ==
  LET slice == Subarray(vals, size - FORMAT_NUM_FIRST_LAST_VALS * storagePerElement(dtype), size)
  IN IF dtype = "complex64" THEN createComplexTuples(slice) ELSE slice

MustTruncateBug(size) == size > FORMAT_LIMIT_NUM_VALS + 1
\* the test `size > FORMAT_LIMIT_NUM_VALS` of the rank-1 and rank >= 2 branches
MustTruncate(size) == size > FORMAT_LIMIT_NUM_VALS

\* rank 1: the one line of a vector
Rank1Line(vals, size, dtype, padPerCol) ==
  IF MustTruncate(size)
  THEN LET fv == firstVals(vals, dtype)
           lv == lastVals(vals, size, dtype)
       IN <<"[">>
          \o Join([i \in 1..Len(fv) |-> valToString(fv[i], At(padPerCol, i - 1))], SCommaSpace)
          \o SCommaSpace \o SEllipsis \o SCommaSpace
          \o Join([i \in 1..Len(lv) |->
                     valToString(lv[i], At(padPerCol, size - FORMAT_NUM_FIRST_LAST_VALS + i - 1))],
                  SCommaSpace)
          \o <<"]">>
  ELSE LET displayVals == IF dtype = "complex64" THEN createComplexTuples(vals) ELSE vals
       IN <<"[">>
          \o Join([i \in 1..Len(displayVals) |-> valToString(displayVals[i], At(padPerCol, i - 1))],
                  SCommaSpace)
          \o <<"]">>

ChildIsLastBug(i, size, isLast) == i = size - 1 /\ isLast
\* the isLast argument of the recursive call for sub-element i
ChildIsLast(i, size, isLast) == i = size - 1

Sub(i, stride, last) ==
  [kind |-> "sub", i |-> i, start |-> i * stride, end |-> i * stride + stride, isLast |-> last]
EllipsisStep == [kind |-> "ellipsis", i |-> -1, start |-> -1, end |-> -1, isLast |-> FALSE]

SubStepsBug(size, stride, isLast) ==
  IF MustTruncate(size)
  THEN [k \in 1..FORMAT_NUM_FIRST_LAST_VALS |-> Sub(k - 1, stride, FALSE)]
       \o <<EllipsisStep>>
       \o [k \in 1..FORMAT_NUM_FIRST_LAST_VALS |->
             Sub(size - FORMAT_NUM_FIRST_LAST_VALS + k, stride,
                 ChildIsLast(size - FORMAT_NUM_FIRST_LAST_VALS + k, size, isLast))]
  ELSE [k \in 1..size |-> Sub(k, stride, ChildIsLast(k, size, isLast))]
\* rank >= 2: what the loops push, in order: a recursive call on
\* vals.subarray(start, end) or the '...' line
SubSteps(size, stride, isLast) ==
  IF MustTruncate(size)
  THEN [k \in 1..FORMAT_NUM_FIRST_LAST_VALS |-> Sub(k - 1, stride, FALSE)]
       \o <<EllipsisStep>>
       \o [k \in 1..FORMAT_NUM_FIRST_LAST_VALS |->
             Sub(size - FORMAT_NUM_FIRST_LAST_VALS + k - 1, stride,
                 ChildIsLast(size - FORMAT_NUM_FIRST_LAST_VALS + k - 1, size, isLast))]
  ELSE [k \in 1..size |-> Sub(k - 1, stride, ChildIsLast(k - 1, size, isLast))]

NewLineSepBug(rank) == <<",">> \o Repeat("\n", rank - 2)
\* newLineSep: ',\n' and one more '\n' for i = 2 .. rank - 1
NewLineSep(rank) == <<",", "\n">> \o Repeat("\n", rank - 2)

BlockCloseBug(rank, isLast) == IF isLast THEN <<>> ELSE <<"]">> \o NewLineSep(rank)
\* what is appended to the last line of a rank >= 2 block
BlockClose(rank, isLast) == <<"]">> \o (IF isLast THEN <<>> ELSE NewLineSep(rank))

\* rank >= 2: the brackets, indentation and separators put on the collected lines
WrapLines(lines, rank, isLast) ==
  LET sep == IF rank = 2 THEN <<",">> ELSE <<>>
      \* lines[0] of an empty array is undefined
      l0 == IF lines = <<>> THEN <<SUndefined>> ELSE lines
      l1 == [l0 EXCEPT ![1] = <<"[">> \o @ \o sep]
      l2 == [i \in 1..Len(l1) |-> IF i > 1 /\ i < Len(l1) THEN <<" ">> \o l1[i] \o sep ELSE l1[i]]
  IN [l2 EXCEPT ![Len(l2)] = <<" ">> \o @ \o BlockClose(rank, isLast)]

\* One call of subTensorToString, as the properties below observe it.
Call(vals, shape, padPerCol, isLast, steps, lines) ==
  [vals |-> vals, shape |-> shape, padPerCol |-> padPerCol, isLast |-> isLast,
   steps |-> steps, lines |-> lines]

\* Returns the lines and the set of calls made, this one included.
RECURSIVE subTensorToString(_, _, _, _, _, _)
subTensorToString(vals, shape, dtype, strides, padPerCol, isLast) ==
  LET size == At(shape, 0)
      rank == Len(shape)
  IN IF rank = 0
     THEN LET lines == <<ScalarLine(vals, dtype)>>
          IN [lines |-> lines, calls |-> {Call(vals, shape, padPerCol, isLast, <<>>, lines)}]
     ELSE IF rank = 1
     THEN LET lines == <<Rank1Line(vals, size, dtype, padPerCol)>>
          IN [lines |-> lines, calls |-> {Call(vals, shape, padPerCol, isLast, <<>>, lines)}]
     ELSE LET subshape == Tail(shape)
              substrides == Tail(strides)
              stride == strides[1] * storagePerElement(dtype)
              steps == SubSteps(size, stride, isLast)
              subs == [k \in 1..Len(steps) |->
                         IF steps[k].kind = "sub"
                         THEN subTensorToString(Subarray(vals, steps[k].start, steps[k].end),
                                                subshape, dtype, substrides, padPerCol,
                                                steps[k].isLast)
                         ELSE [lines |-> <<SEllipsis>>, calls |-> {}]]
              lines == WrapLines(Flatten([k \in 1..Len(steps) |-> subs[k].lines]), rank, isLast)
          IN [lines |-> lines,
              calls |-> {Call(vals, shape, padPerCol, isLast, steps, lines)}
                        \cup UNION {subs[k].calls : k \in 1..Len(steps)}]

STensor == <<"T", "e", "n", "s", "o", "r">>
SDtype == <<" ", " ", "d", "t", "y", "p", "e", ":", " ">>
SRank == <<" ", " ", "r", "a", "n", "k", ":", " ">>
SShape == <<" ", " ", "s", "h", "a", "p", "e", ":", " ", "[">>
SValues == <<" ", " ", "v", "a", "l", "u", "e", "s", ":">>
SFloat32 == <<"f", "l", "o", "a", "t", "3", "2">>
SComplex64 == <<"c", "o", "m", "p", "l", "e", "x", "6", "4">>
DtypeText(dtype) == IF dtype = "complex64" THEN SComplex64 ELSE SFloat32

IndentBug(l) == <<" ", " ">> \o l
\* l => '    ' + l
Indent(l) == <<" ", " ", " ", " ">> \o l

\* The verbose lines pushed after 'Tensor'.
VerboseLines(shape, dtype) ==
  << SDtype \o DtypeText(dtype),
     SRank \o NatToStr(Len(shape)),
     SShape \o Join([i \in 1..Len(shape) |-> NatToStr(shape[i])], <<",">>) \o <<"]">>,
     SValues >>

\* The string tensorToString returns, given the lines of subTensorToString.
Assemble(valsLines, shape, dtype, verbose) ==
  LET lines == <<STensor>>
               \o (IF verbose THEN VerboseLines(shape, dtype) ELSE <<>>)
               \o <<Join([i \in 1..Len(valsLines) |-> Indent(valsLines[i])], <<"\n">>)>>
  IN Join(lines, <<"\n">>)

\* ------------------------------------------------------------------ inputs
Dims == (0..MaxSmallDim) \cup {FORMAT_LIMIT_NUM_VALS, FORMAT_LIMIT_NUM_VALS + 1}
\* The product of the non-zero sizes of a shape.
Extent(s) == sizeFromShape([i \in 1..Len(s) |-> IF s[i] = 0 THEN 1 ELSE s[i]])
Shapes == {s \in UNION {[1..r -> Dims] : r \in 0..MaxRank} : Extent(s) <= MaxSize}
Dtypes == {"float32", "complex64"}

\* 1.5, -2, 100.25, 0.00000006, 123.456789
Sample == <<Num(15, 1), Num(-2, 0), Num(10025, 2), Num(6, 8), Num(123456789, 6)>>

\* The ways a buffer is filled: slot k holds k itself, or the entries of
\* Sample in turn.
Patterns == {"index", "sample"}
ValAt(seed, k) == IF seed = "index" THEN Num(k, 0) ELSE Sample[(k % Len(Sample)) + 1]

Buffer(seed, shape, dtype) ==
  [k \in 1..(sizeFromShape(shape) * storagePerElement(dtype)) |-> ValAt(seed, k - 1)]

\* Values handed to valToString on its own: 0, 1.0, -1.5, 0.1, 0.12345678,
\* 0.00000004, -0.00000004, 0.00000016, 12.5, 120, 123.456789, -200.000001
RealSamples ==
  {Num(0, 0), Num(10, 1), Num(-15, 1), Num(1, 1), Num(12345678, 8), Num(4, 8), Num(-4, 8),
   Num(16, 8), Num(125, 1), Num(120, 0), Num(123456789, 6), Num(-200000001, 6)}
ValSamples == RealSamples \cup {Tuple(a, b) : a \in {Num(3, 0), Num(15, 1)}, b \in {Num(-4, 0), Num(10, 1)}}

\* ------------------------------------------------------------------- state
VARIABLES op, pc, vals, shape, dtype, verbose, strides, padPerCol, valsLines, calls, out,
          val, pad, valStr
vars == <<op, pc, vals, shape, dtype, verbose, strides, padPerCol, valsLines, calls, out,
          val, pad, valStr>>

NoVal == Num(0, 0)

InitTensor ==
  /\ op = "tensorToString"
  /\ \E seed \in Patterns, sh \in Shapes, dt \in Dtypes :
       /\ shape = sh
       /\ dtype = dt
       /\ vals = Buffer(seed, sh, dt)
  /\ verbose \in BOOLEAN
  /\ val = NoVal /\ pad = 0

InitVal ==
  /\ op = "valToString"
  /\ val \in ValSamples
  /\ pad \in 0..MaxPad
  /\ vals = <<>> /\ shape = <<>> /\ dtype = "float32" /\ verbose = FALSE

Init ==
  /\ pc = "call"
  /\ strides = <<>> /\ padPerCol = <<>> /\ valsLines = <<>> /\ calls = {} /\ out = <<>>
  /\ valStr = <<>>
  /\ (InitTensor \/ InitVal)

\* tensorToString(vals, shape, dtype, verbose)
TensorToString ==
  /\ op = "tensorToString" /\ pc = "call"
  /\ LET st == computeStrides(shape)
         ppc == computeMaxSizePerColumn(vals, shape, dtype, st)
         r == subTensorToString(vals, shape, dtype, st, ppc, TRUE)
     IN /\ strides' = st
        /\ padPerCol' = ppc
        /\ valsLines' = r.lines
        /\ calls' = r.calls
        /\ out' = Assemble(r.lines, shape, dtype, verbose)
  /\ pc' = "done"
  /\ UNCHANGED <<op, vals, shape, dtype, verbose, val, pad, valStr>>

\* valToString(val, pad)
ValToString ==
  /\ op = "valToString" /\ pc = "call"
  /\ valStr' = valToString(val, pad)
  /\ pc' = "done"
  /\ UNCHANGED <<op, vals, shape, dtype, verbose, strides, padPerCol, valsLines, calls, out,
                 val, pad>>

Next == TensorToString \/ ValToString

Spec == Init /\ [][Next]_vars

\* ------------------------------------------------- reading the output back
Done == pc = "done"
TensorDone == op = "tensorToString" /\ pc = "done"

CountChar(s, ch) == Cardinality({i \in 1..Len(s) : s[i] = ch})

\* Number of places where '...' starts in s.
CountEllipsis(s) ==
  Cardinality({i \in 1..(Len(s) - 2) : s[i] = "." /\ s[i + 1] = "." /\ s[i + 2] = "."})

\* s without its trailing spaces.
RTrim(s) ==
  LET keep == {i \in 1..Len(s) : s[i] # " "}
  IN IF keep = {} THEN <<>> ELSE SubSeq(s, 1, CHOOSE i \in keep : \A j \in keep : j <= i)

\* The pieces of s between its ', ' separators.
Items(s) ==
  LET commas == {i \in 1..Len(s) : s[i] = ","}
      nth(j) == CHOOSE i \in commas : Cardinality({c \in commas : c < i}) = j - 1
      count == Cardinality(commas) + 1
  IN IF s = <<>> THEN <<>>
     ELSE [j \in 1..count |->
             SubSeq(s, IF j = 1 THEN 1 ELSE nth(j - 1) + 2,
                       IF j = count THEN Len(s) ELSE nth(j) - 1)]

\* The items between the brackets of the line of a rank-1 call.
LineItems(c) == Items(SubSeq(c.lines[1], 2, Len(c.lines[1]) - 1))

Bracketed(line) == Len(line) >= 2 /\ line[1] = "[" /\ line[Len(line)] = "]"

\* Logical element k (from 0) of the buffer a call was given.
Elem(c, k) ==
  IF dtype = "complex64" THEN Tuple(c.vals[2 * k + 1], c.vals[2 * k + 2]) ELSE c.vals[k + 1]

\* The text of a value, unpadded.
Shown(v) == valToString(v, 0)

Rank1Calls == {c \in calls : Len(c.shape) = 1}
BlockCalls == {c \in calls : Len(c.shape) >= 2}

\* C1: a rank-1 call returns one bracketed line; with n <= 20 it lists the n
\* logical elements in index order and has no '...'; with n > 20 it has one
\* '...' with exactly 3 elements before it and 3 after it.
C1_Rank1Line ==
  \A c \in Rank1Calls :
    LET n == c.shape[1]
        line == c.lines[1]
        items == LineItems(c)
    IN /\ Len(c.lines) = 1
       /\ Bracketed(line)
       /\ CountChar(line, "\n") = 0
       /\ IF n <= 20
          THEN /\ CountEllipsis(line) = 0
               /\ Len(items) = n
               /\ \A k \in 1..n : RTrim(items[k]) = Shown(Elem(c, k - 1))
          ELSE /\ CountEllipsis(line) = 1
               /\ Len(items) = 7
               /\ items[4] = SEllipsis
               /\ \A k \in {1, 2, 3, 5, 6, 7} :
                    /\ RTrim(items[k]) # <<>>
                    /\ CountEllipsis(items[k]) = 0

C1_Witness ==
  /\ TensorDone /\ dtype = "complex64"
  /\ \E c \in Rank1Calls : c.shape[1] = 21 /\ Len(c.vals) = 42 /\ CountEllipsis(c.lines[1]) = 1

\* C2: in a truncated rank-1 line the items before the ellipsis are the logical
\* elements 0, 1, 2 and the items after it are n-3, n-2, n-1, for every dtype.
C2_TruncatedEnds ==
  \A c \in Rank1Calls :
    LET n == c.shape[1]
        items == LineItems(c)
    IN n > 20 =>
         /\ Len(items) = 7
         /\ \A k \in 1..3 :
              /\ RTrim(items[k]) = Shown(Elem(c, k - 1))
              /\ RTrim(items[4 + k]) = Shown(Elem(c, n - 3 + k - 1))

\* The value block as text.
ValueBlock == Join(valsLines, <<"\n">>)
IsBracket(ch) == ch \in {"[", "]"}
\* The brackets of s, in order.
Brackets(s) == SelectSeq(s, IsBracket)
\* Open brackets minus close brackets among the first i brackets.
DepthAt(b, i) == 2 * Cardinality({q \in 1..i : b[q] = "["}) - i
Depths(s) == LET b == Brackets(s) IN {DepthAt(b, i) : i \in 0..Len(b)}
MaxDepth(s) == CHOOSE d \in Depths(s) : \A x \in Depths(s) : x <= d
Balanced(s) ==
  /\ CountChar(s, "[") = CountChar(s, "]")
  /\ \A d \in Depths(s) : d >= 0

\* The outer dimensions (all but the innermost) of size 0.
OuterZeros(sh) == {i \in 1..(Len(sh) - 1) : sh[i] = 0}
\* Nesting depth of the brackets the code writes for a shape: the rank, or the
\* position of the first outer dimension of size 0.
NestingOf(sh) ==
  IF OuterZeros(sh) = {} THEN Len(sh)
  ELSE CHOOSE i \in OuterZeros(sh) : \A j \in OuterZeros(sh) : i <= j

\* C3 as stated: the brackets of the value block balance, no prefix closes more
\* than it opens, and the maximum depth is the rank.
C3_BalancedDepthRank ==
  TensorDone => Balanced(ValueBlock) /\ MaxDepth(ValueBlock) = Len(shape)

\* C3 as amended: the brackets balance and no prefix closes more than it opens;
\* the maximum depth is the rank when no outer dimension is 0, and otherwise
\* the position of the first outer dimension of size 0.
C3_BalancedDepth ==
  TensorDone => Balanced(ValueBlock) /\ MaxDepth(ValueBlock) = NestingOf(shape)

C3_Witness ==
  /\ TensorDone /\ Len(shape) = 3 /\ OuterZeros(shape) = {}
  /\ shape[1] = 21 /\ CountChar(ValueBlock, "[") > 6

\* Largest of a set of naturals, 0 when empty.
SetMax(S) == IF S = {} THEN 0 ELSE CHOOSE m \in S : \A x \in S : x <= m

\* Logical element k (from 0) of the whole buffer.
TopElem(k) == IF dtype = "complex64" THEN Tuple(vals[2 * k + 1], vals[2 * k + 2]) ELSE vals[k + 1]

\* C4: for rank >= 2 the pad vector has one width per innermost column, the
\* largest unpadded width in that column over all rows, and every value shown
\* in a column has the same length in every row shown.
C4_ColumnWidths ==
  (TensorDone /\ Len(shape) >= 2) =>
    LET cols == shape[Len(shape)]
        rows == IF cols = 0 THEN 0 ELSE sizeFromShape(shape) \div cols
    IN /\ Len(padPerCol) = cols
       /\ \A j \in 1..cols :
            padPerCol[j] = SetMax({Len(Shown(TopElem((r - 1) * cols + j - 1))) : r \in 1..rows})
       /\ \A c1, c2 \in Rank1Calls :
            \A k \in 1..Len(LineItems(c1)) :
              Len(LineItems(c1)[k]) = Len(LineItems(c2)[k])

IsDigit(ch) == ch \in {"0", "1", "2", "3", "4", "5", "6", "7", "8", "9"}
\* The part of a number's text before its exponent.
Mantissa(s) ==
  LET es == {i \in 1..Len(s) : s[i] = "e"}
  IN IF es = {} THEN s ELSE SubSeq(s, 1, (CHOOSE i \in es : TRUE) - 1)
\* Digits from the first non-zero one to the last non-zero one.
SigDigits(s) ==
  LET m == Mantissa(s)
      nz == {i \in 1..Len(m) : IsDigit(m[i]) /\ m[i] # "0"}
      first == CHOOSE i \in nz : \A j \in nz : i <= j
      last == CHOOSE i \in nz : \A j \in nz : j <= i
  IN IF nz = {} THEN 0 ELSE Cardinality({i \in first..last : IsDigit(m[i])})
NoTrailingZeros(s) ==
  LET m == Mantissa(s)
  IN CountChar(m, ".") > 0 => m[Len(m)] \notin {"0", "."}
\* The texts of the numbers in the result of valToString.
NumberTexts(str, v) ==
  LET t == RTrim(str)
      plus == CHOOSE i \in 1..Len(t) : t[i] = "+"
  IN IF v.tag = "tuple"
     THEN {SubSeq(t, 1, plus - 2), SubSeq(t, plus + 2, Len(t) - 1)}
     ELSE {t}

\* C5: every number valToString prints has at most 7 significant digits and no
\* redundant trailing zeros.
C5_SevenSignificantDigits ==
  (op = "valToString" /\ Done) =>
    \A t \in NumberTexts(valStr, val) : SigDigits(t) <= 7 /\ NoTrailingZeros(t)

\* The text after 'Tensor' for the value lines: each entry on a new line
\* behind four spaces.
IndentedBlock == Flatten([i \in 1..Len(valsLines) |-> <<"\n", " ", " ", " ", " ">> \o valsLines[i]])
ShapeText == Join([i \in 1..Len(shape) |-> NatToStr(shape[i])], <<",">>)
ThreeMetaLines ==
  <<"\n">> \o SDtype \o DtypeText(dtype) \o <<"\n">> \o SRank \o NatToStr(Len(shape))
  \o <<"\n">> \o SShape \o ShapeText \o <<"]">>

\* C6 as stated: 'Tensor', then if verbose exactly the three lines dtype, rank
\* and shape, then the value lines behind four spaces.
C6_ThreeMetaLines ==
  TensorDone =>
    out = STensor \o (IF verbose THEN ThreeMetaLines ELSE <<>>) \o IndentedBlock

\* C6 as amended: 'Tensor', then if verbose the four lines dtype, rank, shape
\* and '  values:', then each entry of the value lines behind four spaces.
C6_FourMetaLines ==
  TensorDone =>
    out = STensor \o (IF verbose THEN ThreeMetaLines \o <<"\n">> \o SValues ELSE <<>>)
          \o IndentedBlock

C6_Witness == TensorDone /\ verbose /\ Len(valsLines) > 1 /\ Len(shape) = 2

\* C7: a call whose outermost dimension is 0 returns the bracket pair '[]'
\* with no other text than separators.
C7_EmptyPair ==
  \A c \in calls :
    (Len(c.shape) >= 1 /\ c.shape[1] = 0) =>
      /\ Len(c.lines) = 1
      /\ \E i \in 1..(Len(c.lines[1]) - 1) : c.lines[1][i] = "[" /\ c.lines[1][i + 1] = "]"
      /\ \A i \in 1..Len(c.lines[1]) : c.lines[1][i] \in {"[", "]", ",", " ", "\n"}

\* The sub-elements a block of outermost size s shows, -1 for the '...' line.
ShownIndices(s) ==
  IF s <= 20 THEN [k \in 1..s |-> k - 1] ELSE <<0, 1, 2, -1, s - 3, s - 2, s - 1>>
\* The '...' line of a block of rank r, as it stands among the block's lines.
EllipsisLine(r) == <<" ">> \o SEllipsis \o (IF r = 2 THEN <<",">> ELSE <<>>)

\* C8: a block of outermost size s and span w renders sub-element i from
\* vals[i*w, (i+1)*w), inside the buffer; all of 0..s-1 in order when s <= 20,
\* else 0,1,2, one '...' line, s-3,s-2,s-1.
C8_SubElements ==
  \A c \in BlockCalls :
    LET s == c.shape[1]
        w == sizeFromShape(Tail(c.shape)) * (IF dtype = "complex64" THEN 2 ELSE 1)
        idx == ShownIndices(s)
    IN /\ Len(c.steps) = Len(idx)
       /\ \A k \in 1..Len(idx) :
            IF idx[k] = -1
            THEN c.steps[k].kind = "ellipsis"
            ELSE /\ c.steps[k].kind = "sub"
                 /\ c.steps[k].i = idx[k]
                 /\ c.steps[k].start = idx[k] * w
                 /\ c.steps[k].end = (idx[k] + 1) * w
                 /\ c.steps[k].end <= Len(c.vals)
                 /\ \E d \in calls :
                      /\ d.shape = Tail(c.shape)
                      /\ d.vals = SubSeq(c.vals, idx[k] * w + 1, (idx[k] + 1) * w)
       /\ Cardinality({k \in 1..Len(c.lines) : c.lines[k] = EllipsisLine(Len(c.shape))})
            = (IF s > 20 THEN 1 ELSE 0)

C8_Witness ==
  /\ TensorDone /\ dtype = "complex64"
  /\ \E c \in BlockCalls : c.shape[1] = 21 /\ c.shape[2] = 2

\* C9 as stated: a sub-element other than the final one gets isLast = false
\* and the final one gets the isLast of the enclosing call.
C9_FinalInheritsIsLast ==
  \A c \in BlockCalls :
    \A k \in 1..Len(c.steps) :
      c.steps[k].kind = "sub" =>
        c.steps[k].isLast = (IF c.steps[k].i = c.shape[1] - 1 THEN c.isLast ELSE FALSE)

\* C9 as amended: a sub-element other than the final one gets isLast = false
\* and the final one gets isLast = true, whatever the enclosing call was given.
C9_FinalIsLast ==
  \A c \in BlockCalls :
    \A k \in 1..Len(c.steps) :
      c.steps[k].kind = "sub" =>
        /\ c.steps[k].isLast = (c.steps[k].i = c.shape[1] - 1)
        /\ \E d \in calls : d.shape = Tail(c.shape) /\ d.isLast = c.steps[k].isLast

C9_Witness ==
  /\ TensorDone
  /\ \E c \in BlockCalls : ~c.isLast /\ c.shape[1] >= 2

\* The text after the last ']' of the last line of a call.
AfterClose(c) ==
  LET last == c.lines[Len(c.lines)]
      closes == {i \in 1..Len(last) : last[i] = "]"}
  IN SubSeq(last, SetMax(closes) + 1, Len(last))
HasClose(c) == CountChar(c.lines[Len(c.lines)], "]") > 0

====
